---------------------------- MODULE Spec2Model ----------------------------
(***************************************************************************)
(* A model of loan_calcs: the three loan variants of loans.py, their       *)
(* builder (Loan.build / Loan.build__all), the solve-for-unknown formulas   *)
(* and the per-period queries, over the decimal arithmetic of data.py.     *)
(*                                                                         *)
(* Money and rates are decimal.Decimal values of the default context       *)
(* (28 significant digits, ROUND_HALF_EVEN).  Their coefficients do not    *)
(* fit a machine integer, so a coefficient is a sequence of base-10000     *)
(* limbs, least significant first, and the arithmetic is written out.      *)
(***************************************************************************)
EXTENDS Integers, Sequences, FiniteSets, TLC


(***************************************************************************)
(* A call evaluates its arguments and then applies the operation: Call     *)
(* does that for an operation given by name.  The Decimal operators below  *)
(* are entered through it; the definitions that do their work follow under *)
(* the same names with Impl appended, and Call itself comes after the      *)
(* operations of the program.                                              *)
(***************************************************************************)
RECURSIVE Call(_, _)

DecAddExact(a, b) == Call("DecAddExact", <<a, b>>)
DecAdd(a, b) == Call("DecAdd", <<a, b>>)
DecSub(a, b) == Call("DecSub", <<a, b>>)
DecCmp(a, b) == Call("DecCmp", <<a, b>>)
DecMulExact(a, b) == Call("DecMulExact", <<a, b>>)
DecMul(a, b) == Call("DecMul", <<a, b>>)
DecDiv(a, b) == Call("DecDiv", <<a, b>>)
DecPow(a, n) == Call("DecPow", <<a, n>>)
DecCeil(a) == Call("DecCeil", <<a>>)

(***************************************************************************)
(* Natural numbers of any size: <<>> is 0, <<l1, ..., lk>> is              *)
(* l1 + l2*10^4 + ... with lk # 0.  The operations work on all limbs at    *)
(* once and settle the carries afterwards.                                 *)
(***************************************************************************)
Limb == 10 ^ 4

Max(S) == CHOOSE i \in S : \A j \in S : j <= i
Min(S) == CHOOSE i \in S : \A j \in S : i <= j

\* the function f on 1 .. n as a sequence
AsSeq(f) == <<>> \o f

\* limb i of a, 0 beyond its ends
At(a, i) == IF i >= 1 /\ i <= Len(a) THEN a[i] ELSE 0

\* s without its leading zero limbs
NatNorm(s) ==
    LET nz == {i \in 1 .. Len(s) : s[i] # 0}
    IN  IF nz = {} THEN <<>> ELSE SubSeq(s, 1, Max(nz))

\* limbs >= 0 of any size, each one's excess over 10^4 moved up one place
NatPass(s) ==
    AsSeq([i \in 1 .. Len(s) + 1 |->
              (At(s, i) % Limb) + (At(s, i - 1) \div Limb)])

\* the number of the limbs t, each in 0 .. 2*10^4 - 1: a carry enters limb i
\* when the nearest limb below it that is not 10^4 - 1 is 10^4 or more
NatCarry(t) ==
    LET carry(i) == \E j \in 1 .. i - 1 :
                        /\ t[j] >= Limb
                        /\ \A k \in j + 1 .. i - 1 : t[k] = Limb - 1
    IN  NatNorm(AsSeq([i \in 1 .. Len(t) + 1 |->
            (At(t, i) + (IF carry(i) THEN 1 ELSE 0)) % Limb]))

NatOfInt(n) ==
    NatNorm(<<n % Limb, (n \div Limb) % Limb, n \div (Limb * Limb)>>)

RECURSIVE NatToInt(_)
NatToInt(a) == IF a = <<>> THEN 0 ELSE Head(a) + Limb * NatToInt(Tail(a))

NatAdd(a, b) ==
    LET n == IF Len(a) > Len(b) THEN Len(a) ELSE Len(b)
    IN  NatCarry(AsSeq([i \in 1 .. n |-> At(a, i) + At(b, i)]))

\* a - b for a >= b: a borrow leaves limb i when the nearest limb below it
\* where a and b differ has a's the smaller
NatSub(a, b) ==
    LET d(i) == a[i] - At(b, i)
        borrow(i) == \E j \in 1 .. i - 1 :
                         /\ d(j) < 0
                         /\ \A k \in j + 1 .. i - 1 : d(k) = 0
    IN  NatNorm(AsSeq([i \in 1 .. Len(a) |->
            (d(i) - (IF borrow(i) THEN 1 ELSE 0)) % Limb]))

\* -1, 0 or 1 as a < b, a = b, a > b
NatCmp(a, b) ==
    IF Len(a) < Len(b) THEN -1
    ELSE IF Len(a) > Len(b) THEN 1
    ELSE LET d == {i \in 1 .. Len(a) : a[i] # b[i]}
         IN  IF d = {} THEN 0
             ELSE IF a[Max(d)] < b[Max(d)] THEN -1 ELSE 1

\* a * m for 0 <= m <= 10^4
NatMulSmall(a, m) ==
    NatCarry(NatPass(AsSeq([i \in 1 .. Len(a) |-> a[i] * m])))

\* the sum of a[i] * b[k + 1 - i] for i in lo .. hi
RECURSIVE NatMulColumn(_, _, _, _, _)
NatMulColumn(a, b, k, lo, hi) ==
    IF lo > hi THEN 0
    ELSE IF lo = hi THEN a[lo] * b[k + 1 - lo]
    ELSE NatMulColumn(a, b, k, lo, (lo + hi) \div 2)
         + NatMulColumn(a, b, k, ((lo + hi) \div 2) + 1, hi)

NatMul(a, b) ==
    IF a = <<>> \/ b = <<>> THEN <<>>
    ELSE NatCarry(NatPass(NatPass(AsSeq(
             [k \in 1 .. Len(a) + Len(b) - 1 |->
                 NatMulColumn(a, b, k,
                              IF k > Len(b) THEN k + 1 - Len(b) ELSE 1,
                              IF k > Len(a) THEN Len(a) ELSE k)]))))

\* a * 10^k
NatShl10(a, k) ==
    LET lo == 10 ^ (k % 4)
        hi == 10 ^ (4 - (k % 4))
    IN  IF a = <<>> THEN a
        ELSE [i \in 1 .. k \div 4 |-> 0]
             \o NatNorm(AsSeq([i \in 1 .. Len(a) + 1 |->
                    (At(a, i) % hi) * lo + At(a, i - 1) \div hi]))

\* a \div 10^k
NatShr10(a, k) ==
    LET lo == 10 ^ (k % 4)
        hi == 10 ^ (4 - (k % 4))
        d  == IF k \div 4 >= Len(a) THEN <<>>
              ELSE SubSeq(a, (k \div 4) + 1, Len(a))
    IN  NatNorm(AsSeq([i \in 1 .. Len(d) |->
            d[i] \div lo + (At(d, i + 1) % lo) * hi]))

\* number of decimal digits of a (0 for 0)
NatDigits(a) ==
    IF a = <<>> THEN 0
    ELSE LET top == a[Len(a)]
         IN  4 * (Len(a) - 1)
             + (IF top >= 1000 THEN 4 ELSE IF top >= 100 THEN 3
                ELSE IF top >= 10 THEN 2 ELSE 1)

\* number of zero digits a # 0 ends with
NatTrailingZeros(a) ==
    LET z == Min({i \in 1 .. Len(a) : a[i] # 0})
    IN  4 * (z - 1)
        + (IF a[z] % 1000 = 0 THEN 3 ELSE IF a[z] % 100 = 0 THEN 2
           ELSE IF a[z] % 10 = 0 THEN 1 ELSE 0)

\* Schoolbook division, one limb of the quotient at a time.  NatDivDigit is
\* r \div bs for r < bs * 10^4 and a leading limb of bs of 10^4 / 2 or more:
\* the estimate from the leading limbs is at most 3 too low, never too high.
NatDivDigit(r, bs) ==
    LET n == Len(bs)
        e == (At(r, n + 1) * Limb + At(r, n)) \div (bs[n] + 1)
    IN  Max({k \in e .. e + 3 :
                k < Limb /\ NatCmp(NatMulSmall(bs, k), r) <= 0})

\* the limbs i + 1 down to 1 of r \div b, put in front of the higher limbs q,
\* and whether nothing is left
RECURSIVE NatDivLoop(_, _, _, _)
NatDivLoop(r, b, i, q) ==
    IF i < 0 \/ r = <<>> THEN <<NatNorm([j \in 1 .. i + 1 |-> 0] \o q), r = <<>>>>
    ELSE LET bs == [j \in 1 .. i |-> 0] \o b
             d  == NatDivDigit(r, bs)
         IN  NatDivLoop(NatSub(r, NatMulSmall(bs, d)), b, i - 1, <<d>> \o q)

\* <<a \div b, TRUE iff b divides a>> for b # 0; both are scaled first so that
\* the divisor's leading limb is large and the estimates are close.
NatDiv(a, b) ==
    LET f  == Limb \div (b[Len(b)] + 1)
        a1 == NatMulSmall(a, f)
        b1 == NatMulSmall(b, f)
    IN  NatDivLoop(a1, b1, Len(a1) - Len(b1), <<>>)


(***************************************************************************)
(* decimal.Decimal values: (-1)^neg * c * 10^e, kept in the one form with  *)
(* no trailing zero in c (0 is c = <<>>, e = 0), so that record equality   *)
(* is Python's == on Decimals.  Every arithmetic result is the exact       *)
(* result rounded to prec significant digits, ties to even; the ...To      *)
(* forms take the number of digits, as the power function works with a     *)
(* few digits more.                                                        *)
(***************************************************************************)
prec == 28

Dec(neg, c, e) ==
    IF c = <<>> THEN [neg |-> FALSE, c |-> c, e |-> 0]
    ELSE LET z == NatTrailingZeros(c)
         IN  [neg |-> neg, c |-> NatShr10(c, z), e |-> e + z]

DecRoundTo(p, neg, c, e) ==
    LET d == NatDigits(c)
    IN  IF d <= p THEN Dec(neg, c, e)
        ELSE LET k    == d - p
                 q    == NatShr10(c, k)
                 r    == NatSub(c, NatShl10(q, k))
                 half == NatCmp(NatMulSmall(r, 2), NatShl10(<<1>>, k))
                 up   == half > 0 \/ (half = 0 /\ q[1] % 2 = 1)
             IN  Dec(neg, IF up THEN NatAdd(q, <<1>>) ELSE q, e + k)

DecRound(x) == DecRoundTo(prec, x.neg, x.c, x.e)

\* Decimal(str(n)) for an int n
DecOfInt(n) == Dec(n < 0, NatOfInt(IF n < 0 THEN -n ELSE n), 0)

\* Decimal("c E e") for a small coefficient, e.g. DecLit(5, -2) is 0.05
DecLit(c, e) == Dec(c < 0, NatOfInt(IF c < 0 THEN -c ELSE c), e)

DecZero == [neg |-> FALSE, c |-> <<>>, e |-> 0]
DecOne == [neg |-> FALSE, c |-> <<1>>, e |-> 0]

DecNeg(a) == [a EXCEPT !.neg = ~a.neg /\ a.c # <<>>]

\* the exact sum, not rounded
DecAddExactImpl(a, b) ==
    LET e  == IF a.e < b.e THEN a.e ELSE b.e
        ca == NatShl10(a.c, a.e - e)
        cb == NatShl10(b.c, b.e - e)
    IN  IF a.neg = b.neg THEN [neg |-> a.neg, c |-> NatAdd(ca, cb), e |-> e]
        ELSE IF NatCmp(ca, cb) >= 0
             THEN [neg |-> a.neg, c |-> NatSub(ca, cb), e |-> e]
             ELSE [neg |-> b.neg, c |-> NatSub(cb, ca), e |-> e]

DecAddImpl(a, b) == DecRound(DecAddExactImpl(a, b))

DecSubImpl(a, b) == DecAddImpl(a, DecNeg(b))

\* -1, 0, 1 as a < b, a = b, a > b (no rounding)
DecCmpImpl(a, b) ==
    LET x == DecAddExactImpl(a, DecNeg(b))
    IN  IF x.c = <<>> THEN 0 ELSE IF x.neg THEN -1 ELSE 1

DecLess(a, b) == DecCmp(a, b) < 0
DecLeq(a, b) == DecCmp(a, b) <= 0

DecAbs(a) == [a EXCEPT !.neg = FALSE]

DecMulExactImpl(a, b) ==
    [neg |-> a.neg # b.neg, c |-> NatMul(a.c, b.c), e |-> a.e + b.e]

DecMulTo(p, a, b) ==
    DecRoundTo(p, a.neg # b.neg, NatMul(a.c, b.c), a.e + b.e)

DecMulImpl(a, b) == DecMulTo(prec, a, b)

\* a / b for b # 0: the quotient to p + 1 digits or more, one further digit
\* recording whether anything is left, then rounded.
DecDivTo(p, a, b) ==
    IF a.c = <<>> THEN DecZero
    ELSE LET gap == p + 1 + NatDigits(b.c) - NatDigits(a.c)
             sh  == IF gap > 0 THEN gap ELSE 0
             qr  == NatDiv(NatShl10(a.c, sh), b.c)
             q   == IF qr[2] THEN NatMulSmall(qr[1], 10)
                    ELSE NatAdd(NatMulSmall(qr[1], 10), <<1>>)
         IN  DecRoundTo(p, a.neg # b.neg, q, a.e - b.e - sh - 1)

DecDivImpl(a, b) == DecDivTo(prec, a, b)

\* base ** n for n >= 1 by squaring, from the exponent's leading bit down,
\* every product rounded to p digits: acc is the power for the bits above
\* `bit`, the bit to take next (0 when none is left)
RECURSIVE DecPowLoop(_, _, _, _, _)
DecPowLoop(acc, base, n, bit, p) ==
    IF bit = 0 \/ acc.c = <<>> THEN acc
    ELSE LET sq == DecMulTo(p, acc, acc)
         IN  DecPowLoop(IF (n \div bit) % 2 = 1 THEN DecMulTo(p, sq, base)
                        ELSE sq,
                        base, n, bit \div 2, p)

DecPowUint(base, n, p) ==
    DecPowLoop(base, base, n,
               (CHOOSE b \in {2 ^ j : j \in 0 .. 30} : b <= n /\ n < 2 * b)
                   \div 2,
               p)

\* a ** n for an integer n and a # 0, as Decimal.__pow__ computes it for an
\* integral exponent: a working precision of prec plus the exponent's digit
\* count plus 2 (one more, and the reciprocal of a first, when n < 0), then
\* one rounding to prec.
DecPowImpl(a, n) ==
    LET m    == IF n < 0 THEN -n ELSE n
        work == prec + NatDigits(NatOfInt(m)) + 2 + (IF n < 0 THEN 1 ELSE 0)
        base == IF n < 0 THEN DecDivTo(work, DecOne, a) ELSE a
    IN  IF n = 0 THEN DecOne ELSE DecRound(DecPowUint(base, m, work))

DecIsInt(a) == a.e >= 0

\* int(a) for an integral a that fits a machine integer
DecToInt(a) ==
    LET v == NatToInt(NatShl10(a.c, a.e)) IN IF a.neg THEN -v ELSE v

\* math.ceil(a)
DecCeilImpl(a) ==
    IF a.e >= 0 THEN DecToInt(a)
    ELSE LET q     == NatShr10(a.c, -a.e)
             exact == NatShl10(q, -a.e) = a.c
             v     == NatToInt(q)
         IN  IF a.neg THEN -v ELSE IF exact THEN v ELSE v + 1


(***************************************************************************)
(* Python values.  A Decimal is a record as above; None and int values     *)
(* are records of their own, so that any two values can be compared.       *)
(***************************************************************************)
None == [none |-> TRUE]

PyInt(n) == [int |-> n]

IsInt(v) == DOMAIN v = {"int"}

\* bool(v) of a number or None
Truthy(v) ==
    IF v = None THEN FALSE
    ELSE IF IsInt(v) THEN v.int # 0
    ELSE v.c # <<>>

\* what a call does: the exception it raises ("" when it returns) and the
\* value it returns
Return(v) == [raised |-> "", value |-> v]
Raise(exc) == [raised |-> exc, value |-> None]

\* data.py
InterestApplyMethod == {"BEFORE", "AFTER"}
InterestApplyMethod_value(b) == IF b = "BEFORE" THEN 0 ELSE 1
InterestRateType == {"VARIABLE", "FIXED"}
RepaymentType ==
    {"FixedRepaymentLoan", "FixedPrincipalLoan", "InterestOnlyLoan"}

\* _to_decimal: Decimal(str(value)), and Decimal(None) for None, which raises
\* TypeError.  str() of an int or of a Decimal is exact, so the value is kept.
to_decimal(value) ==
    IF value = None THEN Raise("TypeError")
    ELSE IF IsInt(value) THEN Return(DecOfInt(value.int))
    ELSE Return(value)

\* the value of an int or an integral Decimal as a machine integer
AsInt(v) == IF IsInt(v) THEN v.int ELSE DecToInt(v)

\* an int or a Decimal as a Decimal, as the arithmetic operators take it
AsDec(v) == IF IsInt(v) THEN DecOfInt(v.int) ELSE v

\* _calculate_amortised_rate(interest_rate, n).  `n < 0` raises TypeError for
\* n = None; Decimal(1) + interest_rate raises TypeError for a rate of None;
\* Decimal(0) ** 0 raises decimal.InvalidOperation.
calculate_amortised_rate(interest_rate, n) ==
    IF n = None THEN Raise("TypeError")
    ELSE IF AsInt(n) < 0 THEN Raise("AssertionError")
    ELSE IF interest_rate = None THEN Raise("TypeError")
    ELSE IF DecAdd(DecOne, interest_rate) = DecZero /\ AsInt(n) = 0
    THEN Raise("InvalidOperation")
    ELSE Return(DecPow(DecAdd(DecOne, interest_rate), AsInt(n)))

(***************************************************************************)
(* math.ceil(math.log(x) / math.log(y)) for Decimals x >= 1 and y >= 1.    *)
(* The arguments are converted to doubles.  A double of 1.0 has the        *)
(* logarithm 0.0 exactly: x within 2^-53 of 1 gives 0, and y within 2^-53  *)
(* of 1 divides by zero.  Otherwise the quotient is the exact one up to    *)
(* the rounding of the conversions, of the platform's log and of the       *)
(* division, so the result is the least n with y^n >= x, except that when  *)
(* x is within 10^-FloatDigits of a power of y either neighbour of the     *)
(* exact quotient may come out: both are given.                            *)
(***************************************************************************)
FloatDigits == 14

\* 2^53
TwoTo53 == [neg |-> FALSE, c |-> <<992, 4740, 9254, 9007>>, e |-> 0]

\* float(x) == 1.0 for x >= 1
FloatIsOne(x) ==
    DecCmp(DecMulExact(DecAddExact(x, DecNeg(DecOne)), TwoTo53), DecOne) <= 0

FloatAbove(v) == DecMulExact(v, DecAddExact(DecOne, DecLit(1, -FloatDigits)))
FloatBelow(v) == DecMulExact(v, DecAddExact(DecOne, DecLit(-1, -FloatDigits)))

\* the results n >= k, given pw = y^k and pw * (1 - 10^-FloatDigits) < x
RECURSIVE CeilLogFrom(_, _, _, _)
CeilLogFrom(x, y, k, pw) ==
    IF DecCmp(FloatAbove(pw), x) < 0 THEN CeilLogFrom(x, y, k + 1, DecMul(pw, y))
    ELSE IF DecCmp(FloatBelow(pw), x) < 0 THEN {k, k + 1}
    ELSE {k}

math_ceil_log(x, y) ==
    IF FloatIsOne(y) THEN {Raise("ZeroDivisionError")}
    ELSE IF FloatIsOne(x) THEN {Return(PyInt(0))}
    ELSE {Return(PyInt(n)) : n \in CeilLogFrom(x, y, 1, y)}


(***************************************************************************)
(* The solve-for-unknown formulas.  kw is the keyword bundle of the call:  *)
(* loan_amount, interest_rate, total_repayments, fixed_periodic_repayment  *)
(* (each a value or None), before_or_after, interest_rate_type and         *)
(* total_amortised_rate, as Loan.build passes it, and for a                *)
(* FixedPrincipalLoan possibly a custom_... value.  Each formula gives the *)
(* set of its possible outcomes (one, except where math.log decides).      *)
(* Arithmetic on None raises TypeError; a Decimal division by zero raises  *)
(* decimal.DivisionByZero, a ZeroDivisionError.                            *)
(***************************************************************************)
FixedRepaymentLoan_build__calculate_loan_amount(kw) ==
    IF None \in {kw.fixed_periodic_repayment, kw.interest_rate,
                 kw.total_amortised_rate}
    THEN {Raise("TypeError")}
    ELSE LET P == kw.fixed_periodic_repayment
             A == kw.total_amortised_rate
             Rb == DecPow(kw.interest_rate,
                          InterestApplyMethod_value(kw.before_or_after) - 1)
         IN  {Return(DecDiv(DecMul(DecMul(P, Rb), DecSub(A, DecOne)), A))}

FixedRepaymentLoan_build__calculate_fixed_periodic_repayment(kw) ==
    IF None \in {kw.loan_amount, kw.interest_rate, kw.total_amortised_rate}
    THEN {Raise("TypeError")}
    ELSE LET A  == kw.total_amortised_rate
             Rb == DecPow(kw.interest_rate,
                          1 - InterestApplyMethod_value(kw.before_or_after))
             d  == DecSub(A, DecOne)
         IN  IF d = DecZero THEN {Raise("ZeroDivisionError")}
             ELSE {Return(DecDiv(DecMul(DecMul(Rb, kw.loan_amount), A), d))}

FixedRepaymentLoan_build__calculate_total_repayments(kw) ==
    IF None \in {kw.loan_amount, kw.interest_rate, kw.fixed_periodic_repayment}
    THEN {Raise("TypeError")}
    ELSE LET P  == kw.fixed_periodic_repayment
             Rb == DecPow(kw.interest_rate,
                          1 - InterestApplyMethod_value(kw.before_or_after))
             denominator == DecSub(P, DecMul(kw.loan_amount, Rb))
         IN  IF DecLeq(denominator, DecZero) THEN {Raise("ValueError")}
             ELSE math_ceil_log(DecDiv(P, denominator),
                                DecAdd(kw.interest_rate, DecOne))

\* the custom_... keyword of a bundle, None when it is not passed
Custom(kw, name) == IF name \in DOMAIN kw THEN kw[name] ELSE None

\* FixedPrincipalLoan: the calculated value, or the custom one when it is
\* passed and does not exceed the calculated one
CustomOrCalculated(custom, calculated) ==
    IF custom = None THEN Return(calculated)
    ELSE IF DecCmp(AsDec(custom), AsDec(calculated)) > 0
    THEN Raise("ValueError")
    ELSE Return(custom)

FixedPrincipalLoan_build__calculate_loan_amount(kw) ==
    IF None \in {kw.fixed_periodic_repayment, kw.total_repayments}
    THEN {Raise("TypeError")}
    ELSE {CustomOrCalculated(Custom(kw, "custom_loan_amount"),
                             DecMul(kw.fixed_periodic_repayment,
                                    AsDec(kw.total_repayments)))}

FixedPrincipalLoan_build__calculate_fixed_periodic_repayment(kw) ==
    IF None \in {kw.loan_amount, kw.total_repayments}
    THEN {Raise("TypeError")}
    ELSE IF AsInt(kw.total_repayments) = 0 THEN {Raise("ZeroDivisionError")}
    ELSE {CustomOrCalculated(Custom(kw, "custom_periodic_repayment"),
                             DecDiv(kw.loan_amount,
                                    AsDec(kw.total_repayments)))}

FixedPrincipalLoan_build__calculate_total_repayments(kw) ==
    IF None \in {kw.loan_amount, kw.fixed_periodic_repayment}
    THEN {Raise("TypeError")}
    ELSE IF kw.fixed_periodic_repayment = DecZero
    THEN {Raise("ZeroDivisionError")}
    ELSE {CustomOrCalculated(Custom(kw, "custom_total_repayments"),
                             PyInt(DecCeil(DecDiv(kw.loan_amount,
                                               kw.fixed_periodic_repayment))))}

InterestOnlyLoan_build__calculate_loan_amount(kw) ==
    IF None \in {kw.fixed_periodic_repayment, kw.interest_rate}
    THEN {Raise("TypeError")}
    ELSE IF kw.interest_rate = DecZero THEN {Raise("ZeroDivisionError")}
    ELSE {Return(DecDiv(kw.fixed_periodic_repayment, kw.interest_rate))}

InterestOnlyLoan_build__calculate_fixed_periodic_repayment(kw) ==
    IF None \in {kw.loan_amount, kw.interest_rate}
    THEN {Raise("TypeError")}
    ELSE {Return(DecMul(kw.loan_amount, kw.interest_rate))}

InterestOnlyLoan_build__calculate_total_repayments(kw) ==
    IF kw.total_repayments = None THEN {Raise("ValueError")}
    ELSE {Return(kw.total_repayments)}

\* cls._build__calculate_interest_rate(**kwargs): every variant defines it as
\* an instance method without keyword parameters, so the call on the class
\* with the bundle raises TypeError before its body runs.
build__calculate_interest_rate(cls, kw) == {Raise("TypeError")}

build__calculate_loan_amount(cls, kw) ==
    CASE cls = "FixedRepaymentLoan" ->
             FixedRepaymentLoan_build__calculate_loan_amount(kw)
      [] cls = "FixedPrincipalLoan" ->
             FixedPrincipalLoan_build__calculate_loan_amount(kw)
      [] cls = "InterestOnlyLoan" ->
             InterestOnlyLoan_build__calculate_loan_amount(kw)

build__calculate_total_repayments(cls, kw) ==
    CASE cls = "FixedRepaymentLoan" ->
             FixedRepaymentLoan_build__calculate_total_repayments(kw)
      [] cls = "FixedPrincipalLoan" ->
             FixedPrincipalLoan_build__calculate_total_repayments(kw)
      [] cls = "InterestOnlyLoan" ->
             InterestOnlyLoan_build__calculate_total_repayments(kw)

build__calculate_fixed_periodic_repayment(cls, kw) ==
    CASE cls = "FixedRepaymentLoan" ->
             FixedRepaymentLoan_build__calculate_fixed_periodic_repayment(kw)
      [] cls = "FixedPrincipalLoan" ->
             FixedPrincipalLoan_build__calculate_fixed_periodic_repayment(kw)
      [] cls = "InterestOnlyLoan" ->
             InterestOnlyLoan_build__calculate_fixed_periodic_repayment(kw)

\* the variant's formula for the parameter named x
build__calculate(cls, x, kw) ==
    CASE x = "loan_amount" -> build__calculate_loan_amount(cls, kw)
      [] x = "interest_rate" -> build__calculate_interest_rate(cls, kw)
      [] x = "total_repayments" -> build__calculate_total_repayments(cls, kw)
      [] x = "fixed_periodic_repayment" ->
             build__calculate_fixed_periodic_repayment(cls, kw)


(***************************************************************************)
(* Loan.  An instance is a record of the six attributes __init__ sets,     *)
(* with `type` the variant's class.  The arguments of build and build__all *)
(* are a record a of the four core values (a value or None) and the two    *)
(* enums.                                                                   *)
(***************************************************************************)
Core ==
    {"loan_amount", "interest_rate", "total_repayments",
     "fixed_periodic_repayment"}

FormulaName(x) == "_build__calculate_" \o x

\* A constructor that takes the timing from the rate type, the one enum
\* argument for the other; Loan.__init__ is told apart from it below.
Loan__init__by_rate_type(cls, L, R, N, P, before_or_after, interest_rate_type) ==
    [type               |-> cls,
     interest_rate_type |-> interest_rate_type,
     before_or_after    |-> IF interest_rate_type = "FIXED" THEN "AFTER"
                            ELSE "BEFORE",
     loan_amount        |-> L,
     interest_rate      |-> R,
     total_repayments   |-> N,
     periodic_repayment |-> P]

Loan__init__(cls, L, R, N, P, before_or_after, interest_rate_type) ==
    [type               |-> cls,
     interest_rate_type |-> interest_rate_type,
     before_or_after    |-> before_or_after,
     loan_amount        |-> L,
     interest_rate      |-> R,
     total_repayments   |-> N,
     periodic_repayment |-> P]

\* Loan.build__all: the four values through _to_decimal, then cls(...)
build__all(cls, a) ==
    IF \E x \in Core : to_decimal(a[x]).raised # "" THEN Raise("TypeError")
    ELSE Return(Loan__init__(cls,
                             to_decimal(a.loan_amount).value,
                             to_decimal(a.interest_rate).value,
                             to_decimal(a.total_repayments).value,
                             to_decimal(a.fixed_periodic_repayment).value,
                             a.before_or_after, a.interest_rate_type))

\* the keyword bundle Loan.build makes of its arguments: a falsy value becomes
\* None, and the amortised rate is computed whatever is missing
build_kwargs(a) ==
    LET R     == IF Truthy(a.interest_rate)
                 THEN to_decimal(a.interest_rate).value ELSE None
        amort == calculate_amortised_rate(R, a.total_repayments)
    IN  IF amort.raised # "" THEN amort
        ELSE Return(
            [loan_amount |->
                 IF Truthy(a.loan_amount) THEN to_decimal(a.loan_amount).value
                 ELSE None,
             interest_rate |-> R,
             total_repayments |->
                 IF Truthy(a.total_repayments)
                 THEN PyInt(AsInt(a.total_repayments)) ELSE None,
             fixed_periodic_repayment |->
                 IF Truthy(a.fixed_periodic_repayment)
                 THEN to_decimal(a.fixed_periodic_repayment).value ELSE None,
             before_or_after |-> a.before_or_after,
             interest_rate_type |-> a.interest_rate_type,
             total_amortised_rate |-> amort.value])

\* the outcome of a call together with the names of the functions it entered
Traced(out, names) ==
    [raised |-> out.raised, value |-> out.value, called |-> names]

\* Loan.build from the formula's result on: the solved value replaces the
\* missing argument x and build__all constructs the loan
build_finish(cls, a, x, solved, names) ==
    IF solved.raised # "" THEN Traced(solved, names)
    ELSE Traced(build__all(cls, [a EXCEPT ![x] = solved.value]),
                names \cup {"build__all"})

\* A builder that takes whatever it is given to build__all, all four values
\* included; Loan.build is told apart from it below.
build_solve_accepting(cls, a, kw) ==
    {Traced(build__all(cls, a), {"_calculate_amortised_rate", "build__all"})}

\* Loan.build after the bundle is made: the four-values check, then the
\* branch of the first value that is None (so the final else is not reached)
build_solve(cls, a, kw) ==
    LET entered == {"_calculate_amortised_rate"}
        missing == IF a.loan_amount = None THEN "loan_amount"
                   ELSE IF a.interest_rate = None THEN "interest_rate"
                   ELSE IF a.total_repayments = None THEN "total_repayments"
                   ELSE "fixed_periodic_repayment"
    IN  IF \A x \in Core : a[x] # None
        THEN {Traced(Raise("ValueError"), entered)}
        ELSE IF \E x \in Core \ {missing} : a[x] = None
        THEN {Traced(Raise("AssertionError"), entered)}
        ELSE {build_finish(cls, a, missing, solved,
                           entered \cup {FormulaName(missing)}) :
                  solved \in build__calculate(cls, missing, kw)}

\* Loan.build: the possible outcomes of cls.build(**a)
build(cls, a) ==
    LET kwargs == build_kwargs(a)
    IN  IF kwargs.raised # ""
        THEN {Traced(kwargs, {"_calculate_amortised_rate"})}
        ELSE build_solve(cls, a, kwargs.value)

\* Loan.total_amortised_rate
total_amortised_rate(self) ==
    calculate_amortised_rate(self.interest_rate, self.total_repayments)

\* A principal repayment of the whole loan amount at once;
\* FixedPrincipalLoan.principal_repayment is told apart from it below.
FixedPrincipalLoan_principal_repayment_at_once(self, custom_periodic_repayment) ==
    Return(self.loan_amount)

\* FixedPrincipalLoan.principal_repayment; read as a property it gets no
\* custom value (None)
FixedPrincipalLoan_principal_repayment(self, custom_periodic_repayment) ==
    IF self.total_repayments = DecZero THEN Raise("ZeroDivisionError")
    ELSE CustomOrCalculated(custom_periodic_repayment,
                            DecDiv(self.loan_amount, self.total_repayments))

\* loan.principal_repayment(custom_periodic_repayment): principal_repayment
\* is a property, so the attribute is read first, without a custom value, and
\* the call is made on the Decimal it gives, which raises TypeError
FixedPrincipalLoan_principal_repayment_call(self, custom_periodic_repayment) ==
    LET read == FixedPrincipalLoan_principal_repayment(self, None)
    IN  IF read.raised # "" THEN read ELSE Raise("TypeError")

\* A balance that leaves the timing of the interest out;
\* FixedRepaymentLoan.calculate_balance_at_period is told apart from it below.
FixedRepaymentLoan_calculate_balance_untimed(self, period) ==
    LET amort == calculate_amortised_rate(self.interest_rate,
                                          to_decimal(PyInt(period)).value)
    IN  IF amort.raised # "" THEN amort
        ELSE Return(DecSub(DecMul(self.loan_amount, amort.value),
                           DecMul(self.periodic_repayment,
                                  DecSub(amort.value, DecOne))))

FixedRepaymentLoan_calculate_balance_at_period(self, period) ==
    LET amort == calculate_amortised_rate(self.interest_rate,
                                          to_decimal(PyInt(period)).value)
        Rb    == DecPow(self.interest_rate,
                        InterestApplyMethod_value(self.before_or_after) - 1)
    IN  IF amort.raised # "" THEN amort
        ELSE Return(DecSub(DecMul(self.loan_amount, amort.value),
                           DecMul(DecMul(self.periodic_repayment, Rb),
                                  DecSub(amort.value, DecOne))))

\* A balance that counts the repayment of the period to come as made;
\* FixedPrincipalLoan.calculate_balance_at_period is told apart from it below.
FixedPrincipalLoan_calculate_balance_ahead(self, period) ==
    LET pr == FixedPrincipalLoan_principal_repayment(self, None)
    IN  IF pr.raised # "" THEN pr
        ELSE Return(DecSub(self.loan_amount,
                           DecMul(DecOfInt(period + 1), pr.value)))

FixedPrincipalLoan_calculate_balance_at_period(self, period) ==
    LET pr == FixedPrincipalLoan_principal_repayment(self, None)
    IN  IF pr.raised # "" THEN pr
        ELSE Return(DecSub(self.loan_amount,
                           DecMul(DecOfInt(period), pr.value)))

\* A balance that is never paid off;
\* InterestOnlyLoan.calculate_balance_at_period is told apart from it below.
InterestOnlyLoan_calculate_balance_unpaid(self, period) ==
    Return(self.loan_amount)

InterestOnlyLoan_calculate_balance_at_period(self, period) ==
    IF DecOfInt(period) = self.total_repayments THEN Return(DecZero)
    ELSE Return(self.loan_amount)

calculate_balance_at_period(self, period) ==
    CASE self.type = "FixedRepaymentLoan" ->
             FixedRepaymentLoan_calculate_balance_at_period(self, period)
      [] self.type = "FixedPrincipalLoan" ->
             FixedPrincipalLoan_calculate_balance_at_period(self, period)
      [] self.type = "InterestOnlyLoan" ->
             InterestOnlyLoan_calculate_balance_at_period(self, period)

\* An interest part taken on the balance at the end of the period itself;
\* FixedRepaymentLoan.calculate_repayment_interest_at_period is told apart
\* from it below.
FixedRepaymentLoan_calculate_repayment_interest_on_closing(self, period) ==
    LET balance == Call("calculate_balance_at_period", <<self, period>>)
    IN  IF balance.raised # "" THEN balance
        ELSE Return(DecMul(balance.value, self.interest_rate))

\* self.calculate_balance_at_period(period=period - 1) * self.interest_rate
FixedRepaymentLoan_calculate_repayment_interest_at_period(self, period) ==
    LET balance == Call("calculate_balance_at_period", <<self, period - 1>>)
    IN  IF balance.raised # "" THEN balance
        ELSE Return(DecMul(balance.value, self.interest_rate))

\* self.periodic_repayment - self.calculate_repayment_interest_at_period(..)
FixedRepaymentLoan_calculate_repayment_principal_at_period(self, period) ==
    LET interest == Call("calculate_repayment_interest_at_period",
                         <<self, period>>)
    IN  IF interest.raised # "" THEN interest
        ELSE Return(DecSub(self.periodic_repayment, interest.value))

FixedRepaymentLoan_calculate_cumulative_interest(self, period) ==
    Raise("NotImplementedError")

FixedPrincipalLoan_calculate_repayment_principal_at_period(self, period) ==
    Raise("NotImplementedError")

FixedPrincipalLoan_calculate_repayment_interest_at_period(self, period) ==
    Raise("NotImplementedError")

\* the body is a docstring and nothing else: the call returns None
FixedPrincipalLoan_calculate_cumulative_interest(self, period) ==
    Return(None)

InterestOnlyLoan_calculate_repayment_principal_at_period(self, period) ==
    Raise("NotImplementedError")

InterestOnlyLoan_calculate_repayment_interest_at_period(self, period) ==
    Raise("NotImplementedError")

\* the body is a docstring and nothing else: the call returns None
InterestOnlyLoan_calculate_cumulative_interest(self, period) ==
    Return(None)

calculate_repayment_principal_at_period(self, period) ==
    CASE self.type = "FixedRepaymentLoan" ->
             FixedRepaymentLoan_calculate_repayment_principal_at_period(
                 self, period)
      [] self.type = "FixedPrincipalLoan" ->
             FixedPrincipalLoan_calculate_repayment_principal_at_period(
                 self, period)
      [] self.type = "InterestOnlyLoan" ->
             InterestOnlyLoan_calculate_repayment_principal_at_period(
                 self, period)

calculate_repayment_interest_at_period(self, period) ==
    CASE self.type = "FixedRepaymentLoan" ->
             FixedRepaymentLoan_calculate_repayment_interest_at_period(
                 self, period)
      [] self.type = "FixedPrincipalLoan" ->
             FixedPrincipalLoan_calculate_repayment_interest_at_period(
                 self, period)
      [] self.type = "InterestOnlyLoan" ->
             InterestOnlyLoan_calculate_repayment_interest_at_period(
                 self, period)

calculate_cumulative_interest(self, period) ==
    CASE self.type = "FixedRepaymentLoan" ->
             FixedRepaymentLoan_calculate_cumulative_interest(self, period)
      [] self.type = "FixedPrincipalLoan" ->
             FixedPrincipalLoan_calculate_cumulative_interest(self, period)
      [] self.type = "InterestOnlyLoan" ->
             InterestOnlyLoan_calculate_cumulative_interest(self, period)

\* what reading or calling the attribute op of the instance gives: the four
\* per-period queries take a period, the two properties nothing, and only
\* a FixedPrincipalLoan has a principal_repayment
Answer(self, op, arg) ==
    CASE op \in {"calculate_balance_at_period",
                 "calculate_repayment_principal_at_period",
                 "calculate_repayment_interest_at_period",
                 "calculate_cumulative_interest"} ->
             Call(op, <<self, arg.int>>)
      [] op = "total_amortised_rate" -> Call(op, <<self>>)
      [] op = "principal_repayment" ->
             IF self.type = "FixedPrincipalLoan" THEN Call(op, <<self, None>>)
             ELSE Raise("AttributeError")

\* A balance query that keeps its result in place of the loan amount;
\* the queries of the loans are told apart from it below.
Invoke_in_place(self, op, arg) ==
    LET out == Answer(self, op, arg)
    IN  [self |-> IF op = "calculate_balance_at_period" /\ out.raised = ""
                  THEN [self EXCEPT !.loan_amount = out.value]
                  ELSE self,
         out  |-> out]

\* a query made on an instance: what it raises or returns, and the instance
\* afterwards.  No method but __init__ assigns an attribute of self, so the
\* instance is left as it was.
Invoke(self, op, arg) == [self |-> self, out |-> Answer(self, op, arg)]


\* the keyword bundle of a formula called on its own: the values as they
\* are and the amortised rate of the rate and the term, where both are there
Bundle(a) ==
    [loan_amount              |-> a.loan_amount,
     interest_rate            |-> a.interest_rate,
     total_repayments         |-> a.total_repayments,
     fixed_periodic_repayment |-> a.fixed_periodic_repayment,
     before_or_after          |-> a.before_or_after,
     interest_rate_type       |-> a.interest_rate_type,
     total_amortised_rate     |->
         calculate_amortised_rate(a.interest_rate, a.total_repayments).value]

\* the keyword a FixedPrincipalLoan formula takes its custom value by
CustomName(x) ==
    CASE x = "loan_amount" -> "custom_loan_amount"
      [] x = "fixed_periodic_repayment" -> "custom_periodic_repayment"
      [] x = "total_repayments" -> "custom_total_repayments"

\* the bundle of a formula called on its own with a custom value as well
CustomBundle(a, x, custom) == (CustomName(x) :> custom) @@ Bundle(a)

(***************************************************************************)
(* The operation named op applied to the arguments x, which are evaluated  *)
(* before it is entered.  The formulas are called with the bundle of the   *)
(* argument record.                                                        *)
(***************************************************************************)
Call(op, x) ==
    CASE op = "DecAddExact" /\ Len(x) = 2 -> DecAddExactImpl(x[1], x[2])
      [] op = "DecAdd" /\ Len(x) = 2 -> DecAddImpl(x[1], x[2])
      [] op = "DecSub" /\ Len(x) = 2 -> DecSubImpl(x[1], x[2])
      [] op = "DecCmp" /\ Len(x) = 2 -> DecCmpImpl(x[1], x[2])
      [] op = "DecMulExact" /\ Len(x) = 2 -> DecMulExactImpl(x[1], x[2])
      [] op = "DecMul" /\ Len(x) = 2 -> DecMulImpl(x[1], x[2])
      [] op = "DecDiv" /\ Len(x) = 2 -> DecDivImpl(x[1], x[2])
      [] op = "DecPow" /\ Len(x) = 2 -> DecPowImpl(x[1], x[2])
      [] op = "DecCeil" /\ Len(x) = 1 -> DecCeilImpl(x[1])
      [] op = "build" /\ Len(x) = 2 -> build(x[1], x[2])
      [] op = "build__all" /\ Len(x) = 2 -> build__all(x[1], x[2])
      [] op = "_build__calculate" /\ Len(x) = 3 ->
             build__calculate(x[1], x[2], Bundle(x[3]))
      [] op = "calculate_balance_at_period" /\ Len(x) = 2 ->
             calculate_balance_at_period(x[1], x[2])
      [] op = "principal_repayment" /\ Len(x) = 2 ->
             FixedPrincipalLoan_principal_repayment(x[1], x[2])
      [] op = "calculate_repayment_principal_at_period" /\ Len(x) = 2 ->
             calculate_repayment_principal_at_period(x[1], x[2])
      [] op = "calculate_repayment_interest_at_period" /\ Len(x) = 2 ->
             calculate_repayment_interest_at_period(x[1], x[2])
      [] op = "calculate_cumulative_interest" /\ Len(x) = 2 ->
             calculate_cumulative_interest(x[1], x[2])
      [] op = "total_amortised_rate" /\ Len(x) = 1 ->
             total_amortised_rate(x[1])
      [] op = "Invoke" /\ Len(x) = 3 -> Invoke(x[1], x[2], x[3])
      [] op = "_calculate_amortised_rate" /\ Len(x) = 2 ->
             calculate_amortised_rate(x[1], x[2])
      [] op = "_build__calculate" /\ Len(x) = 4 ->
             build__calculate(x[1], x[2], CustomBundle(x[3], x[2], x[4]))
      [] op = "principal_repayment()" /\ Len(x) = 2 ->
             FixedPrincipalLoan_principal_repayment_call(x[1], x[2])


(***************************************************************************)
(* The state: one call sequence on one variant.  First a loan is built     *)
(* (build or build__all) or one of the formulas is called on the class;    *)
(* then the loan, if one was returned, is queried, or another parameter is *)
(* derived again from the solved set.  No call changes the loan, so one    *)
(* call after the first shows every result there is.                       *)
(***************************************************************************)
VARIABLES
    call,    \* the first call: its name, the class it was made on, its arguments
    ret,     \* what it raised or returned
    called,  \* the functions it entered
    loan,    \* the loan instance, None when none was constructed
    query,   \* the last call after the first: its name and its argument
    answer,  \* what that call raised or returned
    asked    \* the queries made of the loan so far, each with its answer

vars == <<call, ret, called, loan, query, answer, asked>>

\* the values the calls are made with
MaxRepayments == 6

Amounts == {DecLit(1000, 0), DecLit(250, 0)}
Rates == {DecLit(5, -2), DecLit(2, -1)}
Terms == {PyInt(3), PyInt(MaxRepayments)}
Repayments == {DecLit(100, 0), DecLit(50, 0)}
Periods == 0 .. MaxRepayments + 1

\* amounts far apart, for the formulas called on their own
Cent == DecLit(1, -2)
Huge == DecLit(1, 15)

\* the parameters a variant has a formula for
Solvable == Core \ {"interest_rate"}

Arguments(Ls, Rs, Ns, Ps) ==
    [loan_amount              : Ls,
     interest_rate            : Rs,
     total_repayments         : Ns,
     fixed_periodic_repayment : Ps,
     before_or_after          : InterestApplyMethod,
     interest_rate_type       : InterestRateType]

BuildArguments ==
    Arguments(Amounts \cup {None}, Rates \cup {None}, Terms \cup {None},
              Repayments \cup {None})

BuildAllArguments == Arguments(Amounts, Rates, Terms, Repayments)

FormulaArguments ==
    Arguments(Amounts \cup {Cent}, Rates, Terms, Repayments \cup {Huge})

\* the values a FixedPrincipalLoan formula is called with when it is given a
\* custom value, and the custom values: some below, some equal to and some
\* above what the formula calculates
CustomArguments ==
    Arguments({DecLit(1000, 0), DecLit(300, 0)}, Rates, Terms, Repayments)

\* the rates and periods _calculate_amortised_rate is called with on its own:
\* rates above, at and below -1, periods from below 0 on
AmortisedRates ==
    Rates \cup {DecZero, DecLit(-5, -1), DecLit(-1, 0), DecLit(-2, 0)}

AmortisedPeriods == {PyInt(n) : n \in -2 .. MaxRepayments}

Customs(x) ==
    CASE x = "loan_amount" -> {DecLit(1000, 0), DecLit(300, 0)}
      [] x = "fixed_periodic_repayment" -> Repayments
      [] x = "total_repayments" -> Terms

NoCall == [op |-> "none", cls |-> "none", args |-> None]
NoQuery == [op |-> "none", arg |-> None]

Init ==
    /\ call = NoCall
    /\ ret = Return(None)
    /\ called = {}
    /\ loan = None
    /\ query = NoQuery
    /\ answer = Return(None)
    /\ asked = <<>>

\* cls.build(**a)
Build(cls, a) ==
    /\ call = NoCall
    /\ \E out \in Call("build", <<cls, a>>) :
          /\ call' = [op |-> "build", cls |-> cls, args |-> a]
          /\ ret' = [raised |-> out.raised, value |-> out.value]
          /\ called' = out.called
          /\ loan' = out.value
    /\ UNCHANGED <<query, answer, asked>>

\* cls.build__all(**a)
BuildAll(cls, a) ==
    /\ call = NoCall
    /\ call' = [op |-> "build__all", cls |-> cls, args |-> a]
    /\ ret' = Call("build__all", <<cls, a>>)
    /\ called' = {"build__all"}
    /\ loan' = ret'.value
    /\ UNCHANGED <<query, answer, asked>>

\* cls._build__calculate_<x>(**Bundle(a)), x being the value a leaves out
Solve(cls, x, a) ==
    /\ call = NoCall
    /\ a[x] = None
    /\ call' = [op |-> FormulaName(x), cls |-> cls, args |-> a]
    /\ ret' \in Call("_build__calculate", <<cls, x, a>>)
    /\ called' = {FormulaName(x)}
    /\ UNCHANGED <<loan, query, answer, asked>>

\* FixedPrincipalLoan._build__calculate_<x>(**Bundle(a), custom_<x>=custom)
SolveCustom(x, a, custom) ==
    /\ call = NoCall
    /\ a[x] = None
    /\ call' = [op |-> FormulaName(x), cls |-> "FixedPrincipalLoan",
                args |-> a, custom |-> custom]
    /\ ret' \in Call("_build__calculate",
                    <<"FixedPrincipalLoan", x, a, custom>>)
    /\ called' = {FormulaName(x)}
    /\ UNCHANGED <<loan, query, answer, asked>>

\* _calculate_amortised_rate(interest_rate, n)
CalculateAmortisedRate(interest_rate, n) ==
    /\ call = NoCall
    /\ call' = [op |-> "_calculate_amortised_rate", cls |-> "none",
                args |-> [interest_rate |-> interest_rate, n |-> n]]
    /\ ret' = Call("_calculate_amortised_rate", <<interest_rate, n>>)
    /\ called' = {"_calculate_amortised_rate"}
    /\ UNCHANGED <<loan, query, answer, asked>>

\* the parameter the first call solved for, and the full set that results
Solved == CHOOSE x \in Solvable : FormulaName(x) = call.op
SolvedArguments == [call.args EXCEPT ![Solved] = ret.value]

\* cls._build__calculate_<y>(**Bundle(the solved set)) for another parameter y
Rederive(y) ==
    /\ query = NoQuery
    /\ call.op \in {FormulaName(x) : x \in Solvable}
    /\ "custom" \notin DOMAIN call
    /\ ret.raised = ""
    /\ FormulaName(y) # call.op
    /\ query' = [op |-> FormulaName(y), arg |-> None]
    /\ answer' \in Call("_build__calculate",
                       <<call.cls, y, SolvedArguments>>)
    /\ UNCHANGED <<call, ret, called, loan, asked>>

\* loan.calculate_balance_at_period(period)
CalculateBalanceAtPeriod(period) ==
    /\ query = NoQuery
    /\ loan # None
    /\ query' = [op |-> "calculate_balance_at_period", arg |-> PyInt(period)]
    /\ answer' = Call("calculate_balance_at_period", <<loan, period>>)
    /\ asked' = Append(asked, [query |-> query', answer |-> answer'])
    /\ UNCHANGED <<call, ret, called, loan>>

\* loan.principal_repayment, which only a FixedPrincipalLoan has
PrincipalRepayment ==
    /\ query = NoQuery
    /\ loan # None
    /\ loan.type = "FixedPrincipalLoan"
    /\ query' = [op |-> "principal_repayment", arg |-> None]
    /\ answer' = Call("principal_repayment", <<loan, None>>)
    /\ asked' = Append(asked, [query |-> query', answer |-> answer'])
    /\ UNCHANGED <<call, ret, called, loan>>

\* loan.calculate_repayment_principal_at_period(period)
CalculateRepaymentPrincipalAtPeriod(period) ==
    /\ query = NoQuery
    /\ loan # None
    /\ query' = [op |-> "calculate_repayment_principal_at_period",
                 arg |-> PyInt(period)]
    /\ answer' = Call("calculate_repayment_principal_at_period",
                      <<loan, period>>)
    /\ asked' = Append(asked, [query |-> query', answer |-> answer'])
    /\ UNCHANGED <<call, ret, called, loan>>

\* loan.calculate_repayment_interest_at_period(period)
CalculateRepaymentInterestAtPeriod(period) ==
    /\ query = NoQuery
    /\ loan # None
    /\ query' = [op |-> "calculate_repayment_interest_at_period",
                 arg |-> PyInt(period)]
    /\ answer' = Call("calculate_repayment_interest_at_period",
                      <<loan, period>>)
    /\ asked' = Append(asked, [query |-> query', answer |-> answer'])
    /\ UNCHANGED <<call, ret, called, loan>>

\* loan.calculate_cumulative_interest(period)
CalculateCumulativeInterest(period) ==
    /\ query = NoQuery
    /\ loan # None
    /\ query' = [op |-> "calculate_cumulative_interest", arg |-> PyInt(period)]
    /\ answer' = Call("calculate_cumulative_interest", <<loan, period>>)
    /\ asked' = Append(asked, [query |-> query', answer |-> answer'])
    /\ UNCHANGED <<call, ret, called, loan>>

\* loan.total_amortised_rate
TotalAmortisedRate ==
    /\ query = NoQuery
    /\ loan # None
    /\ query' = [op |-> "total_amortised_rate", arg |-> None]
    /\ answer' = Call("total_amortised_rate", <<loan>>)
    /\ asked' = Append(asked, [query |-> query', answer |-> answer'])
    /\ UNCHANGED <<call, ret, called, loan>>

\* loan.principal_repayment(custom) on a FixedPrincipalLoan
PrincipalRepaymentCall(custom) ==
    /\ query = NoQuery
    /\ loan # None
    /\ loan.type = "FixedPrincipalLoan"
    /\ query' = [op |-> "principal_repayment()", arg |-> custom]
    /\ answer' = Call("principal_repayment()", <<loan, custom>>)
    /\ asked' = Append(asked, [query |-> query', answer |-> answer'])
    /\ UNCHANGED <<call, ret, called, loan>>

Next ==
    \/ \E cls \in RepaymentType, a \in BuildArguments : Build(cls, a)
    \/ \E cls \in RepaymentType, a \in BuildAllArguments : BuildAll(cls, a)
    \/ \E cls \in RepaymentType, x \in Solvable, a \in FormulaArguments :
           Solve(cls, x, [a EXCEPT ![x] = None])
    \/ \E y \in Solvable : Rederive(y)
    \/ \E period \in Periods : CalculateBalanceAtPeriod(period)
    \/ PrincipalRepayment
    \/ \E x \in Solvable, a \in CustomArguments :
           \E custom \in Customs(x) :
               SolveCustom(x, [a EXCEPT ![x] = None], custom)
    \/ \E custom \in Repayments \cup {DecLit(500, 0)} :
           PrincipalRepaymentCall(custom)
    \/ \E period \in Periods : CalculateRepaymentPrincipalAtPeriod(period)
    \/ \E period \in Periods : CalculateRepaymentInterestAtPeriod(period)
    \/ \E period \in Periods : CalculateCumulativeInterest(period)
    \/ TotalAmortisedRate
    \/ \E interest_rate \in AmortisedRates, n \in AmortisedPeriods :
           CalculateAmortisedRate(interest_rate, n)

Spec == Init /\ [][Next]_vars

(***************************************************************************)
(* A session on one loan: the loan as build__all constructs it, and then   *)
(* one query after another, of any kind and in any order, each made on the *)
(* instance the one before has left.                                       *)
(***************************************************************************)
MaxQueries == 2

SessionArguments ==
    Arguments({DecLit(1000, 0)}, Rates, {PyInt(3)}, {DecLit(100, 0)})

SessionPeriods == {1, 2}

PeriodQueries ==
    {"calculate_balance_at_period", "calculate_repayment_principal_at_period",
     "calculate_repayment_interest_at_period", "calculate_cumulative_interest"}

Properties == {"total_amortised_rate", "principal_repayment"}

SessionInit ==
    /\ \E cls \in RepaymentType, a \in SessionArguments :
          /\ call = [op |-> "build__all", cls |-> cls, args |-> a]
          /\ ret = Call("build__all", <<cls, a>>)
    /\ called = {"build__all"}
    /\ loan = ret.value
    /\ query = NoQuery
    /\ answer = Return(None)
    /\ asked = <<>>

\* loan.<op>(period), or loan.<op> for a property (arg is None)
Ask(op, arg) ==
    /\ loan # None
    /\ Len(asked) < MaxQueries
    /\ LET done == Call("Invoke", <<loan, op, arg>>)
       IN  /\ query' = [op |-> op, arg |-> arg]
           /\ answer' = done.out
           /\ loan' = done.self
           /\ asked' = Append(asked, [query |-> query', answer |-> answer'])
    /\ UNCHANGED <<call, ret, called>>

SessionNext ==
    \/ \E op \in PeriodQueries, period \in SessionPeriods :
           Ask(op, PyInt(period))
    \/ \E op \in Properties : Ask(op, None)

Session == SessionInit /\ [][SessionNext]_vars


(***************************************************************************)
(* The properties of the builder, the formulas and the balances.           *)
(***************************************************************************)
\* the core values the first call left out
Omitted == {x \in Core : call.args[x] = None}

\* the first call was cls.build, leaving out exactly the values named in S
BuiltWithout(cls, S) == call.op = "build" /\ call.cls = cls /\ Omitted = S

\* the first call was made with these values and this timing
ArgsAre(L, R, N, P, b) ==
    /\ call.args.loan_amount = L
    /\ call.args.interest_rate = R
    /\ call.args.total_repayments = N
    /\ call.args.fixed_periodic_repayment = P
    /\ call.args.before_or_after = b

\* the loan is of the variant cls and was asked its balance at period n
BalanceAsked(cls, n) ==
    /\ loan # None
    /\ loan.type = cls
    /\ query = [op |-> "calculate_balance_at_period", arg |-> PyInt(n)]

\* v is nothing but the rounding left by a few operations on values of the
\* size of w: |v| <= |w| * 10^(3 - prec)
Negligible(v, w) ==
    DecLeq(DecAbs(v), DecMulExact(DecAbs(w), DecLit(1, 3 - prec)))

\* v reproduces w: the same count, or the same amount up to rounding
Reproduces(v, w) ==
    IF IsInt(w) THEN v = w
    ELSE v # None /\ ~IsInt(v) /\ Negligible(DecSub(v, w), w)

\* P - L * R^(1 - b) of the arguments a
Denominator(a) ==
    DecSub(a.fixed_periodic_repayment,
           DecMul(a.loan_amount,
                  DecPow(a.interest_rate,
                         1 - InterestApplyMethod_value(a.before_or_after))))

\* C1: FixedRepaymentLoan.build with loan_amount, interest_rate and
\* fixed_periodic_repayment supplied, total_repayments left out and
\* P - L*R^(1-b) > 0 returns a loan whose total_repayments is what the
\* total-repayments formula gives for these values, the least N with
\* (1+R)^N >= P / (P - L*R^(1-b)): 15 for L = 1000, R = 0.05, P = 100 with
\* timing BEFORE.
C1_BuildSolvesTotalRepayments ==
    (/\ BuiltWithout("FixedRepaymentLoan", {"total_repayments"})
     /\ DecLess(DecZero, Denominator(call.args)))
    => /\ ret.raised = ""
       /\ loan # None
       /\ Return(PyInt(AsInt(loan.total_repayments)))
              \in FixedRepaymentLoan_build__calculate_total_repayments(
                      Bundle(call.args))
       /\ (ArgsAre(DecLit(1000, 0), DecLit(5, -2), None, DecLit(100, 0),
                   "BEFORE")
           => loan.total_repayments = DecLit(15, 0))

\* C2: FixedPrincipalLoan.build with loan_amount, interest_rate and
\* total_repayments supplied and fixed_periodic_repayment left out returns a
\* loan whose periodic_repayment is L / N, and its principal_repayment is
\* the same value: 166.6666666666666666666666667 for L = 1000, N = 6.
C2_FixedPrincipalRepayment ==
    BuiltWithout("FixedPrincipalLoan", {"fixed_periodic_repayment"})
    => /\ ret.raised = ""
       /\ loan # None
       /\ loan.periodic_repayment
              = DecDiv(call.args.loan_amount, AsDec(call.args.total_repayments))
       /\ (query.op = "principal_repayment"
           => answer = Return(loan.periodic_repayment))
       /\ (call.args.loan_amount = DecLit(1000, 0)
           /\ call.args.total_repayments = PyInt(6))
          => loan.periodic_repayment
                 = [neg |-> FALSE,
                    c |-> <<6667, 6666, 6666, 6666, 6666, 6666, 1666>>,
                    e |-> -25]

\* a loan built from L = 1000 and N = 6 was asked its principal repayment and
\* answered 166.6666666666666666666666667, its periodic repayment
C2_Witness ==
    /\ BuiltWithout("FixedPrincipalLoan", {"fixed_periodic_repayment"})
    /\ call.args.loan_amount = DecLit(1000, 0)
    /\ call.args.total_repayments = PyInt(6)
    /\ query.op = "principal_repayment"
    /\ answer.raised = ""
    /\ answer.value = loan.periodic_repayment
    /\ DecMul(answer.value, DecLit(6, 0)) = DecLit(1000, 0)

\* C3: for every variant, build with two or more of the four core values
\* left out fails with ValueError, whichever they are, and returns no loan.
C3_TwoAbsentIsValueError ==
    (call.op = "build" /\ Cardinality(Omitted) >= 2)
    => (ret = Raise("ValueError") /\ loan = None)

\* C4: for every variant, build with all four core values supplied fails
\* with ValueError, having entered no formula and not build__all, and
\* constructs no loan, whether or not the four values fit one another.
C4_AllFourIsValueError ==
    (call.op = "build" /\ Omitted = {})
    => /\ ret = Raise("ValueError")
       /\ called \cap ({FormulaName(x) : x \in Core} \cup {"build__all"}) = {}
       /\ loan = None

\* build was called with four values that fit one another (an interest-only
\* loan whose repayment is L * R) and failed with ValueError
C4_Witness ==
    /\ BuiltWithout("InterestOnlyLoan", {})
    /\ call.args.fixed_periodic_repayment
           = DecMul(call.args.loan_amount, call.args.interest_rate)
    /\ ret.raised = "ValueError"
    /\ loan = None

\* C5: for each variant, build with interest_rate left out and the other
\* three values supplied fails with NotImplementedError, raised by the
\* variant's interest-rate formula.
C5_InterestRateNotImplemented ==
    (call.op = "build" /\ Omitted = {"interest_rate"})
    => /\ ret = Raise("NotImplementedError")
       /\ FormulaName("interest_rate") \in called

\* C6: an InterestOnlyLoan's balance at period n is its loan amount for
\* 0 <= n < N and 0 at n = N (for the loan built from L = 1000, R = 0.05,
\* N = 6: 1000 at period 5 and 0 at period 6).
C6_InterestOnlyBalance ==
    \A n \in Periods :
        BalanceAsked("InterestOnlyLoan", n)
        => /\ (DecLess(DecOfInt(n), loan.total_repayments)
               => answer = Return(loan.loan_amount))
           /\ (DecOfInt(n) = loan.total_repayments
               => answer = Return(DecZero))
           /\ (/\ BuiltWithout("InterestOnlyLoan", {"fixed_periodic_repayment"})
               /\ ArgsAre(DecLit(1000, 0), DecLit(5, -2), PyInt(6), None,
                          call.args.before_or_after))
              => /\ (n = 5 => answer = Return(DecLit(1000, 0)))
                 /\ (n = 6 => answer = Return(DecZero))

\* the interest-only loan built from L = 1000, R = 0.05, N = 6 was asked its
\* balance at period 6 and answered 0
C6_Witness ==
    /\ BuiltWithout("InterestOnlyLoan", {"fixed_periodic_repayment"})
    /\ call.args.loan_amount = DecLit(1000, 0)
    /\ call.args.total_repayments = PyInt(6)
    /\ BalanceAsked("InterestOnlyLoan", 6)
    /\ answer = Return(DecZero)

\* C7: for every FixedRepaymentLoan that build returned, whichever value was
\* left out and for both timings, the balance at period 0 is the loan amount
\* and the balance at period N, the loan's total_repayments, is 0 up to
\* rounding.
C7_FixedRepaymentBalance ==
    \A n \in Periods :
        (/\ call.op = "build"
         /\ ret.raised = ""
         /\ BalanceAsked("FixedRepaymentLoan", n))
        => /\ (n = 0 => answer = Return(loan.loan_amount))
           /\ (DecOfInt(n) = loan.total_repayments
               => /\ answer.raised = ""
                  /\ Negligible(answer.value, loan.loan_amount))

\* a fixed-repayment loan built with the repayment left out and the interest
\* applied before the repayment was asked its balance at its last period, N,
\* and what it answered is not the loan amount
C7_Witness ==
    /\ BuiltWithout("FixedRepaymentLoan", {"fixed_periodic_repayment"})
    /\ call.args.before_or_after = "BEFORE"
    /\ ret.raised = ""
    /\ BalanceAsked("FixedRepaymentLoan", AsInt(call.args.total_repayments))
    /\ answer.raised = ""
    /\ answer.value # loan.loan_amount

\* the balance of the fixed-principal loan before period n, less one
\* principal repayment
BalanceBefore(n) ==
    DecSub(FixedPrincipalLoan_calculate_balance_at_period(loan, n - 1).value,
           FixedPrincipalLoan_principal_repayment(loan, None).value)

\* L - n * principal_repayment of the loan
BalanceByFormula(n) ==
    DecSub(loan.loan_amount,
           DecMul(DecOfInt(n),
                  FixedPrincipalLoan_principal_repayment(loan, None).value))

\* C8, as stated: for every FixedPrincipalLoan and every period n with
\* 1 <= n <= N, the balance at n equals the balance at n - 1 less the
\* principal repayment, and equals L - n * principal_repayment.
C8_BalanceRecurrenceExact ==
    \A n \in Periods \ {0} :
        (/\ BalanceAsked("FixedPrincipalLoan", n)
         /\ DecLeq(DecOfInt(n), loan.total_repayments))
        => /\ answer.raised = ""
           /\ answer.value = BalanceBefore(n)
           /\ answer.value = BalanceByFormula(n)

\* C8, amended: for every FixedPrincipalLoan and every period n with
\* 1 <= n <= N, the balance at n is L - n * principal_repayment as the
\* decimal arithmetic computes it, and differs from the balance at n - 1
\* less the principal repayment by no more than the rounding of these
\* operations.
C8_BalanceRecurrence ==
    \A n \in Periods \ {0} :
        (/\ BalanceAsked("FixedPrincipalLoan", n)
         /\ DecLeq(DecOfInt(n), loan.total_repayments))
        => /\ answer.raised = ""
           /\ answer.value = BalanceByFormula(n)
           /\ Negligible(DecSub(answer.value, BalanceBefore(n)),
                         loan.loan_amount)

\* the fixed-principal loan of L = 1000 and N = 6 was asked its balance at
\* period 6 and answered 0, which is not the balance at period 5 less the
\* principal repayment
C8_Witness ==
    /\ BalanceAsked("FixedPrincipalLoan", 6)
    /\ loan.loan_amount = DecLit(1000, 0)
    /\ loan.total_repayments = DecLit(6, 0)
    /\ answer = Return(DecZero)
    /\ BalanceBefore(6) # DecZero

\* the parameter the call after the first derived again
Rederived == CHOOSE y \in Solvable : query.op = FormulaName(y)

\* C9: for each variant and each parameter X it can solve, solving X from
\* the other three values and then deriving any other parameter Y again
\* from the full set with the variant's formula for Y reproduces the value
\* of Y that was supplied (within decimal precision).
C9_RoundTrip ==
    query.op \in {FormulaName(y) : y \in Solvable}
    => /\ answer.raised = ""
       /\ Reproduces(answer.value, call.args[Rederived])

\* C10: FixedRepaymentLoan's total-repayments formula fails with ValueError
\* exactly when P - L*R^(1-b) <= 0 and returns a positive count otherwise;
\* it fails for L = 1000, P = 50, R = 0.05 with timing BEFORE.
C10_TotalRepaymentsFormula ==
    (/\ call.op = FormulaName("total_repayments")
     /\ call.cls = "FixedRepaymentLoan")
    => /\ IF DecLeq(Denominator(call.args), DecZero)
          THEN ret = Raise("ValueError")
          ELSE ret.raised = "" /\ IsInt(ret.value) /\ ret.value.int > 0
       /\ (ArgsAre(DecLit(1000, 0), DecLit(5, -2), None, DecLit(50, 0),
                   "BEFORE")
           => ret = Raise("ValueError"))

\* what the FixedPrincipalLoan formula for x calculates from the values a:
\* P * N, L / N and ceil(L / P)
Calculated(x, a) ==
    CASE x = "loan_amount" ->
             DecMul(a.fixed_periodic_repayment, AsDec(a.total_repayments))
      [] x = "fixed_periodic_repayment" ->
             DecDiv(a.loan_amount, AsDec(a.total_repayments))
      [] x = "total_repayments" ->
             PyInt(DecCeil(DecDiv(a.loan_amount, a.fixed_periodic_repayment)))

\* what a custom value is to give against the calculated one
Overridden(custom, calculated) ==
    IF DecCmp(AsDec(custom), AsDec(calculated)) <= 0 THEN Return(custom)
    ELSE Raise("ValueError")

\* the first call was a FixedPrincipalLoan formula called on its own
FixedPrincipalFormulaCalled ==
    /\ call.cls = "FixedPrincipalLoan"
    /\ call.op \in {FormulaName(x) : x \in Solvable}

\* the formulas' part of C11: a custom value not above the calculated one is
\* returned as it is, one above it fails with ValueError, and without a
\* custom value the calculated one is returned
CustomFormulas ==
    FixedPrincipalFormulaCalled
    => IF "custom" \in DOMAIN call
       THEN ret = Overridden(call.custom, Calculated(Solved, call.args))
       ELSE ret = Return(Calculated(Solved, call.args))

\* C11: for FixedPrincipalLoan, each custom override (of the periodic
\* repayment against L/N, of the loan amount against P*N, of the total
\* repayments against ceil(L/P)) is returned unchanged when it is not above
\* the calculated value and fails with ValueError when it is, and without
\* an override the calculated value is returned; and a caller who gives
\* principal_repayment a custom value gets it back when it is not above L/N
\* and ValueError when it is.
C11_CustomOverrides ==
    /\ CustomFormulas
    /\ (query.op = "principal_repayment()"
        => answer = Overridden(query.arg,
                               DecDiv(loan.loan_amount, loan.total_repayments)))

\* the per-period queries besides the balance
SplitQueries ==
    {"calculate_repayment_principal_at_period",
     "calculate_repayment_interest_at_period"}

\* C12: every per-period query that a variant leaves unimplemented fails
\* with NotImplementedError and returns no value: calculate_cumulative_interest
\* on all three variants, and calculate_repayment_principal_at_period and
\* calculate_repayment_interest_at_period on FixedPrincipalLoan and
\* InterestOnlyLoan.
C12_UnimplementedQueries ==
    (/\ loan # None
     /\ \/ query.op = "calculate_cumulative_interest"
        \/ /\ query.op \in SplitQueries
           /\ loan.type \in {"FixedPrincipalLoan", "InterestOnlyLoan"})
    => answer = Raise("NotImplementedError")


\* C13: InterestOnlyLoan.build with loan_amount, interest_rate and
\* fixed_periodic_repayment supplied and total_repayments left out fails with
\* ValueError (the total repayments must be supplied) and returns no loan;
\* a total_repayments that is supplied is the term of the loan build returns.
C13_InterestOnlyTotalRepayments ==
    /\ (BuiltWithout("InterestOnlyLoan", {"total_repayments"})
        => (ret = Raise("ValueError") /\ loan = None))
    /\ (/\ call.op = "build"
        /\ call.cls = "InterestOnlyLoan"
        /\ call.args.total_repayments # None
        /\ ret.raised = "")
       => (/\ loan # None
           /\ loan.total_repayments = AsDec(call.args.total_repayments))

\* base^n, no digit dropped
RECURSIVE ExactPowerFrom(_, _, _)
ExactPowerFrom(acc, base, n) ==
    IF n = 0 \/ acc.c = <<>> THEN acc
    ELSE ExactPowerFrom(DecMulExact(acc, base), base, n - 1)

ExactPower(base, n) == ExactPowerFrom(DecOne, base, n)

\* C14: _calculate_amortised_rate(R, n) returns (1 + R)^n, rounded to the
\* precision of the arithmetic, for every n >= 0, returns exactly 1 for
\* n = 0 and every rate R, and fails with AssertionError for every n < 0.
C14_AmortisedRate ==
    call.op = "_calculate_amortised_rate"
    => IF call.args.n.int < 0 THEN ret = Raise("AssertionError")
       ELSE /\ ret.raised = ""
            /\ ret.value
                   = DecRound(ExactPower(DecAdd(DecOne, call.args.interest_rate),
                                         call.args.n.int))
            /\ (call.args.n.int = 0 => ret.value = DecOne)

\* C15: after construction a loan is immutable.  For every variant and every
\* sequence of queries (the four per-period queries, principal_repayment and
\* total_amortised_rate), whether they return or fail, the loan has the
\* attributes it was constructed with (loan_amount, interest_rate,
\* total_repayments, periodic_repayment, before_or_after and
\* interest_rate_type), and a query made again with the same period is
\* answered as it was before.
C15_Immutable ==
    /\ loan = ret.value
    /\ \A i, j \in DOMAIN asked :
           asked[i].query = asked[j].query
           => asked[i].answer = asked[j].answer

\* a fixed-repayment loan was asked its balance at period 2 twice, gave the
\* same value both times, and is as it was constructed
C15_Witness ==
    /\ Len(asked) = 2
    /\ loan = ret.value
    /\ loan.type = "FixedRepaymentLoan"
    /\ asked[1].query = [op |-> "calculate_balance_at_period", arg |-> PyInt(2)]
    /\ asked[2].query = asked[1].query
    /\ asked[1].answer.raised = ""
    /\ asked[1].answer.value # loan.loan_amount
    /\ asked[2].answer = asked[1].answer

\* the other interest rate type
OtherRateType(t) == IF t = "VARIABLE" THEN "FIXED" ELSE "VARIABLE"

\* what a call raised or returned, the interest_rate_type of a loan it
\* returned left aside
RateTypeAside(out) ==
    [raised |-> out.raised,
     value  |-> [f \in DOMAIN out.value \ {"interest_rate_type"} |->
                     out.value[f]]]

\* the arguments of the first call, and the loan, with the other rate type
OtherArguments == [call.args EXCEPT !.interest_rate_type = OtherRateType(@)]
OtherLoan == [loan EXCEPT !.interest_rate_type = OtherRateType(@)]

\* C16: interest_rate_type is metadata only.  For every variant, the build
\* (or build__all) call with the other interest_rate_type and otherwise the
\* same arguments has the same outcome, the same error or a loan with the
\* same attributes but for its rate type, and every query has the same
\* result on both loans for every period.
C16_RateTypeIsMetadata ==
    /\ (call.op = "build"
        => RateTypeAside(ret)
               \in {RateTypeAside(out) : out \in build(call.cls, OtherArguments)})
    /\ (call.op = "build__all"
        => RateTypeAside(ret)
               = RateTypeAside(build__all(call.cls, OtherArguments)))
    /\ (loan # None /\ query.op \in PeriodQueries \cup Properties)
       => answer = Answer(OtherLoan, query.op, query.arg)

\* build returned a fixed-repayment loan of the rate type FIXED, with the
\* interest applied after the repayment, and its balance at its last period
\* was asked and answered with a value
C16_Witness ==
    /\ BuiltWithout("FixedRepaymentLoan", {"fixed_periodic_repayment"})
    /\ call.args.interest_rate_type = "FIXED"
    /\ call.args.before_or_after = "AFTER"
    /\ ret.raised = ""
    /\ loan.interest_rate_type = "FIXED"
    /\ loan.before_or_after = "AFTER"
    /\ BalanceAsked("FixedRepaymentLoan", AsInt(call.args.total_repayments))
    /\ answer.raised = ""
    /\ answer = Answer(OtherLoan, query.op, query.arg)

\* the fixed-repayment loan was asked the query op for period n, one of its
\* periods 1 .. N
SplitAsked(op, n) ==
    /\ loan # None
    /\ loan.type = "FixedRepaymentLoan"
    /\ query = [op |-> op, arg |-> PyInt(n)]
    /\ DecLeq(DecOfInt(n), loan.total_repayments)

\* the balance of the loan at the end of period n - 1, times R
InterestOnOpening(n) ==
    DecMul(FixedRepaymentLoan_calculate_balance_at_period(loan, n - 1).value,
           loan.interest_rate)

\* the interest part of period n as the loan gives it
InterestPart(n) ==
    FixedRepaymentLoan_calculate_repayment_interest_at_period(loan, n).value

\* C17, as stated: for every FixedRepaymentLoan and every period n with
\* 1 <= n <= N, the interest part of the repayment is the balance at n - 1
\* times R and the principal part is P less the interest part, so the two
\* parts sum to the periodic repayment P.
C17_RepaymentSplitExact ==
    \A n \in Periods \ {0} :
        /\ SplitAsked("calculate_repayment_interest_at_period", n)
           => answer = Return(InterestOnOpening(n))
        /\ SplitAsked("calculate_repayment_principal_at_period", n)
           => /\ answer = Return(DecSub(loan.periodic_repayment, InterestPart(n)))
              /\ DecAdd(answer.value, InterestPart(n)) = loan.periodic_repayment

\* C17, amended: for every FixedRepaymentLoan and every period n with
\* 1 <= n <= N, the interest part of the repayment is the balance at n - 1
\* times R and the principal part is P less the interest part, as the
\* decimal arithmetic computes them; the two parts sum to P up to the
\* rounding of the subtraction and the addition.
C17_RepaymentSplit ==
    \A n \in Periods \ {0} :
        /\ SplitAsked("calculate_repayment_interest_at_period", n)
           => answer = Return(InterestOnOpening(n))
        /\ SplitAsked("calculate_repayment_principal_at_period", n)
           => /\ answer = Return(DecSub(loan.periodic_repayment, InterestPart(n)))
              /\ Negligible(DecSub(DecAdd(answer.value, InterestPart(n)),
                                   loan.periodic_repayment),
                            DecAdd(DecAbs(loan.periodic_repayment),
                                   DecAbs(InterestPart(n))))

\* the fixed-repayment loan built from L = 250, R = 0.05 and N = 6 was asked
\* the principal part of a period, and that with the interest part of the
\* period does not sum to the repayment to the last digit
C17_Witness ==
    /\ BuiltWithout("FixedRepaymentLoan", {"fixed_periodic_repayment"})
    /\ call.args.loan_amount = DecLit(250, 0)
    /\ call.args.interest_rate = DecLit(5, -2)
    /\ query.op = "calculate_repayment_principal_at_period"
    /\ SplitAsked(query.op, AsInt(query.arg))
    /\ answer.raised = ""
    /\ AsInt(query.arg) >= 1
    /\ DecAdd(answer.value, InterestPart(AsInt(query.arg)))
           # loan.periodic_repayment

\* the balance of the fixed-repayment loan at the end of period n - 1, less
\* the principal part of the repayment of period n
BalanceLessPrincipal(n) ==
    DecSub(FixedRepaymentLoan_calculate_balance_at_period(loan, n - 1).value,
           FixedRepaymentLoan_calculate_repayment_principal_at_period(
               loan, n).value)

\* C18: for every FixedRepaymentLoan, under both timings, the closed-form
\* balance agrees with the repayment period by period: for every n with
\* 1 <= n <= N the balance at n is the balance at n - 1 less the principal
\* part of the repayment of period n (up to the rounding of the arithmetic).
C18_BalanceBySteps ==
    \A n \in Periods \ {0} :
        (/\ BalanceAsked("FixedRepaymentLoan", n)
         /\ DecLeq(DecOfInt(n), loan.total_repayments))
        => /\ answer.raised = ""
           /\ Negligible(DecSub(answer.value, BalanceLessPrincipal(n)),
                         loan.loan_amount)

=============================================================================
